---- MODULE Spec2Model ----
(***************************************************************************)
(* State-machine model of the NCBI_comparisons scripts:                    *)
(*   02_enrich_arecaceae_taxonomy.py            (WFO Plant List)           *)
(*   03_enrich_curculionidae_taxonomy.py        (Catalogue of Life)        *)
(*   03_enrich_curculionidae_taxonomy_wikidata.py (Wikidata)               *)
(*   04_generate_statistics.py                                             *)
(* Python text (species names, taxon names, rank labels, assembly levels,  *)
(* N50 values) is a sequence of one-character strings, "" being << >>;     *)
(* dict keys, entity ids and control tags are TLA+ strings.                *)
(***************************************************************************)
EXTENDS Integers, Sequences, FiniteSets, TLC

VARIABLES
    authority,    \* which script runs the loop: "wfo", "col" or "wikidata"
    infile,       \* the rows of input_file
    assemblies,   \* the list `assemblies` (its dicts are updated in place)
    idx,          \* 1-based position of the loop in assemblies
    enriched,     \* the list `enriched`
    failed,       \* the list `failed`
    calls,        \* resolver invocations so far: [rec, genus, species]
    outcome,      \* per processed record: how its iteration ended
    outfile,      \* rows written to output_file
    pc,           \* "loop", "done" (returned) or "crashed" (exception left the function)
    \* one record enriched by several authorities in turn
    crec,         \* the record
    capplied,     \* the authorities that enriched it, in order
    csnaps,       \* the record as each of them left it
    \* is_high_quality
    hq_assembly,  \* the dict passed in
    hq_result,    \* what the call gave: "True", "False" or the exception raised
    hq_pc,        \* "call" or "done"
    \* get_taxon_lineage
    known,        \* the Wikidata entities looked up so far
    walk,         \* lineage, current_id, stopped, events
    iterations,   \* iterations of the for loop started so far
    answered,     \* what get_entity_info(current_id) returned in the last iteration
    wtaxonomy,    \* what query_wikidata_taxonomy returns for the lineage walked
    wpc,          \* "loop", "done"
    \* generate_summary_paragraph
    estimates,    \* DIVERSITY_ESTIMATES
    arec_stats,
    curc_stats,
    summary,      \* the paragraph, or the exception raised
    spc,          \* "call", "done" or "crashed"
    \* search_wikidata_taxon
    search_data,  \* what the search request gave: raised, or the candidate list
    selected_id,  \* what the function returned
    search_pc,    \* "call" or "done"
    \* the classification fold of query_col_taxonomy
    col_classification, \* detail_data["classification"]
    col_placement,  \* the rank fields of the dict returned
    norm_pc,        \* "call" or "done"
    \* analyze_arecaceae / analyze_curculionidae
    an_group,     \* which of the two functions runs
    an_rows,      \* the rows read from the enriched file
    an_stats,     \* the sets behind the dict returned
    an_pc,        \* "call" or "done"
    \* the requests of query_col_taxonomy
    col_answers,  \* what the service answers to each request of one call
    col_trace,    \* the requests issued so far
    col_result,   \* what the call returned
    col_pc        \* "exact", "fuzzy", "first" or "done"

loopvars == <<authority, infile, assemblies, idx, enriched, failed, calls, outcome, outfile, pc>>
chainvars == <<crec, capplied, csnaps>>
hqvars == <<hq_assembly, hq_result, hq_pc>>
walkvars == <<known, walk, iterations, answered, wtaxonomy, wpc>>
statvars == <<estimates, arec_stats, curc_stats, summary, spc>>
searchvars == <<search_data, selected_id, search_pc>>
normvars == <<col_classification, col_placement, norm_pc>>
analyzevars == <<an_group, an_rows, an_stats, an_pc>>
requestvars == <<col_answers, col_trace, col_result, col_pc>>
vars == <<loopvars, chainvars, hqvars, walkvars, statvars, searchvars, normvars, analyzevars, requestvars>>

----------------------------------------------------------------------------
(* Bounds *)
MaxRecs == 2

----------------------------------------------------------------------------
(* Python str operations *)

Whitespace == {" ", "\t"}

\* the species_name values the input rows are drawn from: empty, one token,
\* a binomial, a trinomial, one token with a trailing space, one with a
\* leading space, a single space, and two tokens separated by a tab
SpeciesNames ==
    { <<>>,
      <<"a">>,
      <<"a", " ", "b">>,
      <<"a", " ", "b", " ", "c">>,
      <<"a", " ">>,
      <<" ", "a">>,
      <<" ">>,
      <<"a", "\t", "b">> }

UpperToLower ==
    ("A" :> "a") @@ ("B" :> "b") @@ ("C" :> "c") @@ ("D" :> "d") @@ ("E" :> "e") @@
    ("F" :> "f") @@ ("G" :> "g") @@ ("H" :> "h") @@ ("I" :> "i") @@ ("J" :> "j") @@
    ("K" :> "k") @@ ("L" :> "l") @@ ("M" :> "m") @@ ("N" :> "n") @@ ("O" :> "o") @@
    ("P" :> "p") @@ ("Q" :> "q") @@ ("R" :> "r") @@ ("S" :> "s") @@ ("T" :> "t") @@
    ("U" :> "u") @@ ("V" :> "v") @@ ("W" :> "w") @@ ("X" :> "x") @@ ("Y" :> "y") @@
    ("Z" :> "z")

lower(s) == [k \in 1..Len(s) |-> IF s[k] \in DOMAIN UpperToLower THEN UpperToLower[s[k]] ELSE s[k]]

\* `sub in s`
contains(sub, s) == \E k \in 1..(Len(s) - Len(sub) + 1) : SubSeq(s, k, k + Len(sub) - 1) = sub

RECURSIVE lstrip(_)
lstrip(s) == IF s # <<>> /\ Head(s) \in Whitespace THEN lstrip(Tail(s)) ELSE s

RECURSIVE rstrip(_)
rstrip(s) == IF s # <<>> /\ s[Len(s)] \in Whitespace THEN rstrip(SubSeq(s, 1, Len(s) - 1)) ELSE s

strip(s) == rstrip(lstrip(s))

RECURSIVE split_from(_, _, _)
split_from(s, cur, acc) ==
    IF s = <<>> THEN (IF cur = <<>> THEN acc ELSE Append(acc, cur))
    ELSE IF Head(s) \in Whitespace
         THEN split_from(Tail(s), <<>>, IF cur = <<>> THEN acc ELSE Append(acc, cur))
         ELSE split_from(Tail(s), Append(cur, Head(s)), acc)

\* str.split() with no argument
split(s) == split_from(s, <<>>, <<>>)

\* f"{genus} {species}".strip()
scientific_name_of(genus, species) == strip(genus \o <<" ">> \o species)

\* dict.update
update(d, u) == u @@ d

S_family == <<"f", "a", "m", "i", "l", "y">>
S_Family == <<"F", "a", "m", "i", "l", "y">>
S_subfamily == <<"s", "u", "b", "f", "a", "m", "i", "l", "y">>
S_tribe == <<"t", "r", "i", "b", "e">>
S_subtribe == <<"s", "u", "b", "t", "r", "i", "b", "e">>
S_genus == <<"g", "e", "n", "u", "s">>
S_GENUS == <<"G", "E", "N", "U", "S">>
S_species == <<"s", "p", "e", "c", "i", "e", "s">>
S_kingdom == <<"k", "i", "n", "g", "d", "o", "m">>
S_insect == <<"i", "n", "s", "e", "c", "t">>
S_beetle == <<"b", "e", "e", "t", "l", "e">>
S_weevil == <<"w", "e", "e", "v", "i", "l">>
S_accepted == <<"a", "c", "c", "e", "p", "t", "e", "d">>
T_Arecaceae == <<"A", "r", "e", "c", "a", "c", "e", "a", "e">>
T_Arecoideae == <<"A", "r", "e", "c", "o", "i", "d", "e", "a", "e">>
T_Cocoseae == <<"C", "o", "c", "o", "s", "e", "a", "e">>
T_Attaleinae == <<"A", "t", "t", "a", "l", "e", "i", "n", "a", "e">>
T_Oenocarpus == <<"O", "e", "n", "o", "c", "a", "r", "p", "u", "s">>
T_Curculionidae == <<"C", "u", "r", "c", "u", "l", "i", "o", "n", "i", "d", "a", "e">>
T_Curculioninae == <<"C", "u", "r", "c", "u", "l", "i", "o", "n", "i", "n", "a", "e">>
T_Derelomini == <<"D", "e", "r", "e", "l", "o", "m", "i", "n", "i">>
T_Anchylorhynchus == <<"A", "n", "c", "h", "y", "l", "o", "r", "h", "y", "n", "c", "h", "u", "s">>
T_Celetes == <<"C", "e", "l", "e", "t", "e", "s">>
T_Animalia == <<"A", "n", "i", "m", "a", "l", "i", "a">>
D_species_of_beetle == <<"s", "p", "e", "c", "i", "e", "s", " ", "o", "f", " ", "b", "e", "e", "t", "l", "e">>
D_Species_of_insect == <<"S", "p", "e", "c", "i", "e", "s", " ", "o", "f", " ", "i", "n", "s", "e", "c", "t">>
D_painting == <<"p", "a", "i", "n", "t", "i", "n", "g">>

\* what a resolver hands back to the loop: a dict, None, or an exception.
\* `why` records which path produced it (it is not a value the code holds).
ReturnDict(d) == [tag |-> "dict", why |-> "found", val |-> d]
ReturnNone(why) == [tag |-> "None", why |-> why, val |-> <<>>]
Raise(why) == [tag |-> "raise", why |-> why, val |-> <<>>]

\* an accepted name the authority knows that differs from every queried name
OtherName == <<"b", " ", "a">>

----------------------------------------------------------------------------
(* 02_enrich_arecaceae_taxonomy.py: query_wfo_taxonomy *)

\* the acceptedPlacement objects of the answers considered
WFOPlacement(p) ==
    IF p = "full"
    THEN [family |-> T_Arecaceae, subfamily |-> T_Arecoideae, tribe |-> T_Cocoseae,
          subtribe |-> T_Attaleinae, genus |-> T_Oenocarpus]
    ELSE IF p = "partial"
    THEN [family |-> T_Arecaceae, subfamily |-> <<>>, tribe |-> <<>>, subtribe |-> <<>>,
          genus |-> T_Oenocarpus]
    ELSE [family |-> <<>>, subfamily |-> <<>>, tribe |-> <<>>, subtribe |-> <<>>, genus |-> <<>>]

\* answers of the WFO endpoint: kind is what requests.post / response.json gave,
\* acc the acceptedName object, placement the acceptedPlacement object
WFOResponses ==
    {[kind |-> k, acc |-> "null", placement |-> "none"] :
        k \in {"timeout", "exception", "status", "errors", "nomatch"}}
    \cup {[kind |-> "match", acc |-> "null", placement |-> "full"],
          [kind |-> "match", acc |-> "name", placement |-> "partial"],
          [kind |-> "match", acc |-> "nokey", placement |-> "none"],
          [kind |-> "match", acc |-> "name", placement |-> "null"]}

\* the two except clauses of query_wfo_taxonomy: warn and return None
wfo_except(why) == ReturnNone(why)

\* an accepted name that starts empty instead of as the queried name
wfo_accepted_name_no_default(resp, scientific_name) ==
    IF resp.acc = "name" THEN OtherName ELSE <<>>

\* accepted_name = scientific_name, replaced by acceptedName's
\* fullNameStringPlain when the match has an acceptedName carrying one
wfo_accepted_name(resp, scientific_name) ==
    IF resp.acc = "name" THEN OtherName ELSE scientific_name

query_wfo_taxonomy(genus, species, resp) ==
    LET scientific_name == scientific_name_of(genus, species) IN
    IF resp.kind \in {"timeout", "exception"} THEN wfo_except("failure")
    ELSE IF resp.kind = "status" THEN ReturnNone("failure")
    ELSE IF resp.kind = "errors" THEN ReturnNone("failure")
    ELSE IF resp.kind = "match"
    THEN LET accepted_name == wfo_accepted_name(resp, scientific_name)
             placement == WFOPlacement(resp.placement)
         IN  IF resp.placement = "null"
             THEN wfo_except("failure")   \* None.get raises AttributeError
             ELSE ReturnDict([accepted_name |-> accepted_name,
                              family |-> placement.family,
                              subfamily |-> placement.subfamily,
                              tribe |-> placement.tribe,
                              subtribe |-> placement.subtribe,
                              genus_wfo |-> placement.genus])
    ELSE ReturnNone("notfound")

----------------------------------------------------------------------------
(* 03_enrich_curculionidae_taxonomy.py: query_col_taxonomy *)

\* the "classification" arrays of the detail answers considered
COLClassification(c) ==
    IF c = "full"
    THEN << [rank |-> S_kingdom, name |-> T_Animalia],
            [rank |-> S_family, name |-> T_Curculionidae],
            [rank |-> S_subfamily, name |-> T_Curculioninae],
            [rank |-> S_tribe, name |-> T_Derelomini],
            [rank |-> S_genus, name |-> T_Anchylorhynchus] >>
    ELSE IF c = "twice"
    THEN << [rank |-> S_Family, name |-> T_Curculionidae],
            [rank |-> S_genus, name |-> T_Anchylorhynchus],
            [rank |-> S_GENUS, name |-> T_Celetes] >>
    ELSE IF c = "noname"
    THEN << [rank |-> S_family, name |-> <<>>],
            [rank |-> <<>>, name |-> T_Curculionidae] >>
    ELSE << >>

\* a fold that keeps the first name seen for a rank
RECURSIVE col_taxonomy_dict_first_wins(_, _)
col_taxonomy_dict_first_wins(classification, taxonomy_dict) ==
    IF classification = <<>> THEN taxonomy_dict
    ELSE LET taxon == Head(classification)
             rank == lower(taxon.rank)
             name == taxon.name
         IN  col_taxonomy_dict_first_wins(Tail(classification),
                 IF rank # <<>> /\ name # <<>>
                 THEN taxonomy_dict @@ (rank :> name)
                 ELSE taxonomy_dict)

RECURSIVE col_taxonomy_dict(_, _)
col_taxonomy_dict(classification, taxonomy_dict) ==
    IF classification = <<>> THEN taxonomy_dict
    ELSE LET taxon == Head(classification)
             rank == lower(taxon.rank)
             name == taxon.name
         IN  col_taxonomy_dict(Tail(classification),
                 IF rank # <<>> /\ name # <<>>
                 THEN (rank :> name) @@ taxonomy_dict
                 ELSE taxonomy_dict)

\* dict.get(key, "") on a dict of texts
dict_get(d, key) == IF key \in DOMAIN d THEN d[key] ELSE <<>>

\* the rank fields of the dict query_col_taxonomy returns for a classification
col_rank_fields(classification) ==
    LET taxonomy_dict == col_taxonomy_dict(classification, <<>>) IN
    [family_col |-> dict_get(taxonomy_dict, S_family),
     subfamily_col |-> dict_get(taxonomy_dict, S_subfamily),
     tribe_col |-> dict_get(taxonomy_dict, S_tribe),
     genus_col |-> dict_get(taxonomy_dict, S_genus)]

\* answers of the three COL requests: exact and fuzzy are the two searches
\* ("raise": requests or json raised; "status": non-200; "empty"/"hit": 200),
\* has_id whether the first result carries "id", detail the detail request,
\* cls its classification, sci whether name.scientificName is present
COLResponses ==
    {[exact |-> e, fuzzy |-> "empty", has_id |-> TRUE, detail |-> "ok", cls |-> "full", sci |-> TRUE] :
        e \in {"raise", "status", "empty"}}
    \cup {[exact |-> "empty", fuzzy |-> f, has_id |-> TRUE, detail |-> "ok", cls |-> "full", sci |-> TRUE] :
        f \in {"raise", "errbody", "hit"}}
    \cup {[exact |-> "hit", fuzzy |-> "empty", has_id |-> h, detail |-> d, cls |-> "twice", sci |-> FALSE] :
        h \in BOOLEAN, d \in {"raise", "status", "ok"}}
    \cup {[exact |-> "hit", fuzzy |-> "empty", has_id |-> TRUE, detail |-> "ok", cls |-> c, sci |-> TRUE] :
        c \in {"full", "noname", "none"}}

\* the requests query_col_taxonomy issues for an answer, in order
col_requests(resp) ==
    <<"EXACT">>
    \o (IF resp.exact = "empty" THEN <<"WHOLE_WORDS">> ELSE <<>>)
    \o (IF (resp.exact = "hit" \/ (resp.exact = "empty" /\ resp.fuzzy = "hit")) /\ resp.has_id
        THEN <<"DETAIL">> ELSE <<>>)

\* a resolver whose except clauses let the exception through
col_except_reraise(why) == Raise(why)

\* the two except clauses of query_col_taxonomy: warn and return None
col_except(why) == ReturnNone(why)

query_col_taxonomy(genus, species, resp) ==
    LET scientific_name == scientific_name_of(genus, species) IN
    IF resp.exact = "raise" THEN col_except("failure")
    ELSE IF resp.exact = "status" THEN ReturnNone("failure")
    ELSE IF resp.exact = "empty" /\ resp.fuzzy = "raise" THEN col_except("failure")
    ELSE IF resp.exact = "empty" /\ resp.fuzzy = "errbody" THEN ReturnNone("failure")
    ELSE IF resp.exact = "empty" /\ resp.fuzzy = "empty" THEN ReturnNone("notfound")
    ELSE IF ~resp.has_id THEN ReturnNone("failure")
    ELSE IF resp.detail = "raise" THEN col_except("failure")
    ELSE IF resp.detail # "ok" THEN ReturnNone("failure")
    ELSE LET taxonomy_dict == col_taxonomy_dict(COLClassification(resp.cls), <<>>)
             accepted_name == IF resp.sci THEN OtherName ELSE scientific_name
         IN  ReturnDict([accepted_name |-> accepted_name,
                         family_col |-> dict_get(taxonomy_dict, S_family),
                         subfamily_col |-> dict_get(taxonomy_dict, S_subfamily),
                         tribe_col |-> dict_get(taxonomy_dict, S_tribe),
                         genus_col |-> dict_get(taxonomy_dict, S_genus),
                         status |-> S_accepted])

----------------------------------------------------------------------------
(* 03_enrich_curculionidae_taxonomy_wikidata.py *)

\* default of get_taxon_lineage's max_depth parameter
max_depth == 20

\* Python None where an entity id is expected
None == "None"

\* search_wikidata_taxon on what the search request gave: raised (requests
\* or json raised: caught, None returned) or the candidate list `results`
Keywords == {S_species, S_insect, S_beetle, S_weevil}

is_taxon_description(description) == \E keyword \in Keywords : contains(keyword, lower(description))

\* a selection that ignores the descriptions
search_first_candidate(search) ==
    IF search.raised \/ search.results = <<>> THEN None ELSE search.results[1].id

search_wikidata_taxon(search) ==
    LET results == search.results IN
    IF search.raised THEN None
    ELSE IF results = <<>> THEN None
    ELSE IF \E k \in 1..Len(results) : is_taxon_description(results[k].description)
    THEN LET first == CHOOSE k \in 1..Len(results) :
                          /\ is_taxon_description(results[k].description)
                          /\ \A j \in 1..(k - 1) : ~is_taxon_description(results[j].description)
         IN  results[first].id
    ELSE results[1].id

\* get_entity_info's (None, None, None)
NoInfo == [label |-> <<>>, rank_id |-> None, parent_id |-> None]

\* get_entity_info against a table of entities; an id the table lacks stands
\* for an answer without the entity or a request that raised
get_entity_info(world, entity_id) ==
    IF entity_id \in DOMAIN world THEN world[entity_id] ELSE NoInfo

\* the state of the walk before its first iteration
walk_start(entity_id) ==
    [lineage |-> <<>>, current_id |-> entity_id, stopped |-> FALSE, events |-> <<>>]

\* an iteration that tests the rank before it records the node
walk_iteration_family_first(w, info, rank_info) ==
    IF info.label = <<>>
    THEN [w EXCEPT !.stopped = TRUE, !.events = Append(@, "lookup")]
    ELSE LET rank_name == IF info.rank_id # None THEN rank_info.label ELSE <<>>
             looked == w.events \o (IF info.rank_id # None THEN <<"lookup", "lookup">> ELSE <<"lookup">>)
             lineage == Append(w.lineage, [id |-> w.current_id, name |-> info.label, rank |-> rank_name])
         IN  IF rank_name = <<"f", "a", "m", "i", "l", "y">>
             THEN [w EXCEPT !.stopped = TRUE, !.events = looked]
             ELSE IF info.parent_id = None
             THEN [w EXCEPT !.lineage = lineage, !.stopped = TRUE, !.events = looked]
             ELSE [lineage |-> lineage, current_id |-> info.parent_id, stopped |-> FALSE,
                   events |-> Append(looked, "sleep")]

\* an iteration that ends the walk at an entity the lineage already holds
walk_iteration_no_revisit(w, info, rank_info) ==
    IF \E k \in 1..Len(w.lineage) : w.lineage[k].id = w.current_id
    THEN [w EXCEPT !.stopped = TRUE]
    ELSE IF info.label = <<>>
    THEN [w EXCEPT !.stopped = TRUE, !.events = Append(@, "lookup")]
    ELSE LET rank_name == IF info.rank_id # None THEN rank_info.label ELSE <<>>
             looked == w.events \o (IF info.rank_id # None THEN <<"lookup", "lookup">> ELSE <<"lookup">>)
             lineage == Append(w.lineage, [id |-> w.current_id, name |-> info.label, rank |-> rank_name])
         IN  IF rank_name = <<"f", "a", "m", "i", "l", "y">>
             THEN [w EXCEPT !.lineage = lineage, !.stopped = TRUE, !.events = looked]
             ELSE IF info.parent_id = None
             THEN [w EXCEPT !.lineage = lineage, !.stopped = TRUE, !.events = looked]
             ELSE [lineage |-> lineage, current_id |-> info.parent_id, stopped |-> FALSE,
                   events |-> Append(looked, "sleep")]

\* one iteration of the for loop of get_taxon_lineage: info is what
\* get_entity_info(current_id) returned, rank_info what get_entity_info(rank_id)
\* returned (read only when rank_id is set)
walk_iteration(w, info, rank_info) ==
    IF info.label = <<>>
    THEN [w EXCEPT !.stopped = TRUE, !.events = Append(@, "lookup")]
    ELSE LET rank_name == IF info.rank_id # None THEN rank_info.label ELSE <<>>
             looked == w.events \o (IF info.rank_id # None THEN <<"lookup", "lookup">> ELSE <<"lookup">>)
             lineage == Append(w.lineage, [id |-> w.current_id, name |-> info.label, rank |-> rank_name])
         IN  IF rank_name = S_family
             THEN [w EXCEPT !.lineage = lineage, !.stopped = TRUE, !.events = looked]
             ELSE IF info.parent_id = None
             THEN [w EXCEPT !.lineage = lineage, !.stopped = TRUE, !.events = looked]
             ELSE [lineage |-> lineage, current_id |-> info.parent_id, stopped |-> FALSE,
                   events |-> Append(looked, "sleep")]

RECURSIVE walk_loop(_, _, _)
walk_loop(world, w, remaining) ==
    IF remaining = 0 \/ w.stopped THEN w
    ELSE LET info == get_entity_info(world, w.current_id)
         IN  walk_loop(world, walk_iteration(w, info, get_entity_info(world, info.rank_id)), remaining - 1)

get_taxon_lineage(world, entity_id) == walk_loop(world, walk_start(entity_id), max_depth).lineage

RECURSIVE extract_taxonomy_from_lineage(_, _)
extract_taxonomy_from_lineage(lineage, taxonomy) ==
    IF lineage = <<>> THEN taxonomy
    ELSE LET taxon == Head(lineage)
             rank == lower(taxon.rank)
             name == taxon.name
         IN  extract_taxonomy_from_lineage(Tail(lineage),
                 IF rank = S_family THEN [taxonomy EXCEPT !.family = name]
                 ELSE IF rank = S_subfamily THEN [taxonomy EXCEPT !.subfamily = name]
                 ELSE IF rank = S_genus THEN [taxonomy EXCEPT !.genus = name]
                 ELSE taxonomy)

\* the rank entities of the tables considered
RankEntities ==
    ("R_species" :> [label |-> S_species, rank_id |-> None, parent_id |-> None])
    @@ ("R_genus" :> [label |-> S_genus, rank_id |-> None, parent_id |-> None])
    @@ ("R_subfamily" :> [label |-> S_subfamily, rank_id |-> None, parent_id |-> None])
    @@ ("R_family" :> [label |-> S_family, rank_id |-> None, parent_id |-> None])
    @@ ("R_Family" :> [label |-> S_Family, rank_id |-> None, parent_id |-> None])

\* species, genus, subfamily, family: the chain of a weevil species
WeevilChain ==
    ("Q1" :> [label |-> <<"a", " ", "b">>, rank_id |-> "R_species", parent_id |-> "Q2"])
    @@ ("Q2" :> [label |-> T_Anchylorhynchus, rank_id |-> "R_genus", parent_id |-> "Q3"])
    @@ ("Q3" :> [label |-> T_Curculioninae, rank_id |-> "R_subfamily", parent_id |-> "Q4"])
    @@ ("Q4" :> [label |-> T_Curculionidae, rank_id |-> "R_family", parent_id |-> "Q5"])
    @@ ("Q5" :> [label |-> T_Animalia, rank_id |-> None, parent_id |-> None])
    @@ RankEntities

\* a species entity with neither rank nor parent
LoneEntity == ("Q1" :> [label |-> OtherName, rank_id |-> None, parent_id |-> None])

\* answers of Wikidata: what the search returned and the entity table
WikidataResponses ==
    { [search |-> [raised |-> TRUE, results |-> <<>>], world |-> <<>>],
      [search |-> [raised |-> FALSE, results |-> <<>>], world |-> <<>>],
      [search |-> [raised |-> FALSE, results |-> <<[id |-> "Q1", description |-> D_species_of_beetle]>>],
       world |-> WeevilChain],
      [search |-> [raised |-> FALSE, results |-> <<[id |-> "Q1", description |-> D_species_of_beetle]>>],
       world |-> <<>>],
      [search |-> [raised |-> FALSE, results |-> <<[id |-> "Q7", description |-> D_painting],
                                                   [id |-> "Q1", description |-> D_Species_of_insect]>>],
       world |-> LoneEntity] }

\* query_wikidata_taxonomy from `if not lineage` on: None for an empty
\* lineage, else the taxonomy dict with accepted_name and wikidata_id
taxonomy_of_lineage(lineage, entity_id, scientific_name) ==
    IF lineage = <<>> THEN ReturnNone("nolineage")
    ELSE LET accepted_name == IF lineage # <<>> THEN lineage[1].name ELSE scientific_name
             taxonomy == extract_taxonomy_from_lineage(lineage,
                             [family |-> <<>>, subfamily |-> <<>>, genus |-> <<>>])
         IN  ReturnDict(update(taxonomy,
                 [accepted_name |-> accepted_name, wikidata_id |-> entity_id]))

query_wikidata_taxonomy(genus, species, resp) ==
    LET scientific_name == scientific_name_of(genus, species)
        entity_id == search_wikidata_taxon(resp.search)
    IN  IF entity_id = None
        THEN ReturnNone(IF resp.search.raised THEN "failure" ELSE "notfound")
        ELSE taxonomy_of_lineage(get_taxon_lineage(resp.world, entity_id), entity_id, scientific_name)

----------------------------------------------------------------------------
(* enrich_arecaceae_data / enrich_curculionidae_data: the three loops *)

Authorities == {"wfo", "col", "wikidata"}

Responses(a) ==
    IF a = "wfo" THEN WFOResponses
    ELSE IF a = "col" THEN COLResponses
    ELSE WikidataResponses

resolver(a, genus, species, resp) ==
    IF a = "wfo" THEN query_wfo_taxonomy(genus, species, resp)
    ELSE IF a = "col" THEN query_col_taxonomy(genus, species, resp)
    ELSE query_wikidata_taxonomy(genus, species, resp)

\* the dict literal of the skip branch and of the else branch
EmptyPlacement(a) ==
    IF a = "wfo"
    THEN [accepted_name |-> <<>>, family |-> <<>>, subfamily |-> <<>>, tribe |-> <<>>,
          subtribe |-> <<>>, genus_wfo |-> <<>>]
    ELSE IF a = "col"
    THEN [accepted_name |-> <<>>, family_col |-> <<>>, subfamily_col |-> <<>>,
          tribe_col |-> <<>>, genus_col |-> <<>>, status |-> <<>>]
    ELSE [accepted_name |-> <<>>, family |-> <<>>, subfamily |-> <<>>,
          genus_wikidata |-> <<>>, wikidata_id |-> ""]

\* `not species_name or " " not in species_name`
is_invalid_name(species_name) == species_name = <<>> \/ ~contains(<<" ">>, species_name)

\* assembly.update({...}) of the skip branch
skip_update(a, assembly) == update(assembly, EmptyPlacement(a))

\* an else branch that falls back to the queried name
not_found_update_keeps_name(a, assembly) ==
    update(assembly, [EmptyPlacement(a) EXCEPT !.accepted_name = assembly.species_name])

\* assembly.update({...}) of the else branch (taxonomy is None)
not_found_update(a, assembly) == update(assembly, EmptyPlacement(a))

\* a merge that also writes the accepted name over the organism column
found_update_sets_organism(a, assembly, taxonomy) ==
    update(assembly, update(taxonomy, [organism |-> taxonomy.accepted_name]))

\* assembly.update(taxonomy) of the found branch; the Wikidata loop first
\* sets taxonomy["genus_wikidata"] = taxonomy.get("genus", "")
found_update(a, assembly, taxonomy) ==
    IF a = "wikidata"
    THEN update(assembly, update(taxonomy, [genus_wikidata |-> dict_get(taxonomy, "genus")]))
    ELSE update(assembly, taxonomy)

\* failed.append that drops a name already listed
append_failed_once(failed_list, species_name) ==
    IF \E k \in 1..Len(failed_list) : failed_list[k] = species_name
    THEN failed_list
    ELSE Append(failed_list, species_name)

\* failed.append(species_name)
append_failed(failed_list, species_name) == Append(failed_list, species_name)

\* an epithet read from the last token of the name
epithet_last(parts) == IF Len(parts) > 1 THEN parts[Len(parts)] ELSE <<>>

\* species = parts[1] if len(parts) > 1 else ""
epithet_of(parts) == IF Len(parts) > 1 THEN parts[2] ELSE <<>>

\* the body of the for loop for record k: what it does to the record, the
\* resolver call it makes, whether it appends to failed, and how it ends
\* ("IndexError": parts[0] on an empty split; "raised": the resolver raised)
loop_body(a, k, assembly, resp) ==
    LET species_name == assembly.species_name IN
    IF is_invalid_name(species_name)
    THEN [kind |-> "skipped", rec |-> skip_update(a, assembly), called |-> <<>>, fail |-> TRUE]
    ELSE LET parts == split(species_name) IN
         IF parts = <<>>
         THEN [kind |-> "IndexError", rec |-> assembly, called |-> <<>>, fail |-> FALSE]
         ELSE LET genus == parts[1]
                  species == epithet_of(parts)
                  taxonomy == resolver(a, genus, species, resp)
                  call == <<[rec |-> k, genus |-> genus, species |-> species]>>
              IN  IF taxonomy.tag = "raise"
                  THEN [kind |-> "raised", rec |-> assembly, called |-> call, fail |-> FALSE]
                  ELSE IF taxonomy.tag = "dict"
                  THEN [kind |-> "found", rec |-> found_update(a, assembly, taxonomy.val),
                        called |-> call, fail |-> FALSE]
                  ELSE [kind |-> taxonomy.why, rec |-> not_found_update(a, assembly),
                        called |-> call, fail |-> TRUE]

\* csv.DictWriter(fieldnames=enriched[0].keys()).writerows(enriched): a row
\* with a key outside fieldnames raises ValueError, rows before it are written
extra_keys(rows, k) == (DOMAIN rows[k]) \ (DOMAIN rows[1])

csv_row(fieldnames, row) == [f \in fieldnames |-> IF f \in DOMAIN row THEN row[f] ELSE <<>>]

write_rows(rows) ==
    LET bad == {k \in 1..Len(rows) : extra_keys(rows, k) # {}}
        stop == IF bad = {} THEN Len(rows) + 1 ELSE CHOOSE k \in bad : \A j \in bad : k <= j
    IN  [raised |-> bad # {},
         rows |-> [k \in 1..(stop - 1) |-> csv_row(DOMAIN rows[1], rows[k])]]

InputRow(k, name) == [accession |-> k, organism |-> name, species_name |-> name]

InputFiles == UNION {{[k \in 1..n |-> InputRow(k, names[k])] : names \in [1..n -> SpeciesNames]} : n \in 0..MaxRecs}

\* a specification of one part of the program leaves the variables of the others idle
LoopIdle ==
    /\ authority = "" /\ infile = <<>> /\ assemblies = <<>> /\ idx = 0 /\ enriched = <<>>
    /\ failed = <<>> /\ calls = <<>> /\ outcome = <<>> /\ outfile = <<>> /\ pc = ""

ChainIdle == crec = <<>> /\ capplied = <<>> /\ csnaps = <<>>

HQIdle == hq_assembly = <<>> /\ hq_result = "" /\ hq_pc = ""

WalkIdle == known = <<>> /\ walk = <<>> /\ iterations = 0 /\ answered = <<>> /\ wtaxonomy = <<>> /\ wpc = ""

SearchIdle == search_data = <<>> /\ selected_id = "" /\ search_pc = ""

NormIdle == col_classification = <<>> /\ col_placement = <<>> /\ norm_pc = ""

AnalyzeIdle == an_group = "" /\ an_rows = <<>> /\ an_stats = <<>> /\ an_pc = ""

RequestIdle == col_answers = <<>> /\ col_trace = <<>> /\ col_result = <<>> /\ col_pc = ""

StatIdle == estimates = <<>> /\ arec_stats = <<>> /\ curc_stats = <<>> /\ summary = <<>> /\ spc = ""

Init ==
    /\ ChainIdle /\ HQIdle /\ WalkIdle /\ StatIdle /\ SearchIdle /\ NormIdle /\ AnalyzeIdle /\ RequestIdle
    /\ authority \in Authorities
    /\ infile \in InputFiles
    /\ assemblies = infile
    /\ idx = 1
    /\ enriched = <<>>
    /\ failed = <<>>
    /\ calls = <<>>
    /\ outcome = <<>>
    /\ outfile = [written |-> FALSE, rows |-> <<>>]
    /\ pc = "loop"

\* one iteration of `for i, assembly in enumerate(assemblies, 1)`
Iterate ==
    /\ pc = "loop"
    /\ idx <= Len(assemblies)
    /\ \E resp \in Responses(authority) :
         LET r == loop_body(authority, idx, assemblies[idx], resp) IN
         /\ outcome' = Append(outcome, r.kind)
         /\ calls' = calls \o r.called
         /\ IF r.kind \in {"IndexError", "raised"}
            THEN /\ pc' = "crashed"
                 /\ UNCHANGED <<assemblies, idx, enriched, failed>>
            ELSE /\ assemblies' = [assemblies EXCEPT ![idx] = r.rec]
                 /\ enriched' = Append(enriched, r.rec)
                 /\ failed' = IF r.fail
                              THEN append_failed(failed, assemblies[idx].species_name)
                              ELSE failed
                 /\ idx' = idx + 1
                 /\ pc' = "loop"
    /\ UNCHANGED <<authority, infile, outfile>>
    /\ UNCHANGED <<chainvars, hqvars, walkvars, statvars, searchvars, normvars, analyzevars, requestvars>>

\* after the loop: save the enriched rows, report the failures, return enriched
Finish ==
    /\ pc = "loop"
    /\ idx > Len(assemblies)
    /\ IF enriched # <<>>
       THEN LET w == write_rows(enriched) IN
            /\ outfile' = [written |-> TRUE, rows |-> w.rows]
            /\ pc' = IF w.raised THEN "crashed" ELSE "done"
       ELSE /\ outfile' = outfile
            /\ pc' = "done"
    /\ UNCHANGED <<authority, infile, assemblies, idx, enriched, failed, calls, outcome>>
    /\ UNCHANGED <<chainvars, hqvars, walkvars, statvars, searchvars, normvars, analyzevars, requestvars>>

Next == Iterate \/ Finish

Spec == Init /\ [][Next]_vars

----------------------------------------------------------------------------
(* Properties of the enrichment loop *)

\* the resolver calls made for record k
CallsOf(k) == {j \in 1..Len(calls) : calls[j].rec = k}

\* the name the resolver was asked about for record k
QueriedName(k) ==
    LET c == calls[CHOOSE j \in CallsOf(k) : TRUE] IN scientific_name_of(c.genus, c.species)

RankFields(a) ==
    IF a = "wfo" THEN {"family", "subfamily", "tribe", "subtribe", "genus_wfo"}
    ELSE IF a = "col" THEN {"family_col", "subfamily_col", "tribe_col", "genus_col"}
    ELSE {"family", "subfamily", "genus_wikidata"}

RanksEmpty(a, rec) == \A f \in RankFields(a) : rec[f] = <<>>

HasEmptyPlacement(a, rec) ==
    \A f \in DOMAIN EmptyPlacement(a) : rec[f] = EmptyPlacement(a)[f]

\* C1: once the enrichment function has ended, by returning or by an
\* exception, the enriched list holds exactly one record per input row, the
\* k-th being the k-th row
C1_OneOutputPerInput ==
    pc \in {"done", "crashed"} =>
        /\ Len(enriched) = Len(infile)
        /\ \A k \in 1..Len(enriched) : enriched[k].accession = infile[k].accession

C7_FailureContained ==
    [][Len(outcome') = Len(outcome) + 1 =>
        LET kind == outcome'[Len(outcome')] IN
        /\ kind # "raised"
        /\ kind = "failure" =>
            /\ pc' = "loop"
            /\ idx' = idx + 1
            /\ Len(enriched') = Len(enriched) + 1
            /\ HasEmptyPlacement(authority, enriched'[Len(enriched')])
            /\ enriched'[Len(enriched')].accession = infile[idx].accession
            /\ failed' = Append(failed, infile[idx].species_name)
            /\ Len(calls') = Len(calls) + 1
            /\ calls'[Len(calls')].rec = idx]_vars

\* a resolution failed and a later record was processed
C7_Witness ==
    \E k \in 1..Len(outcome) : outcome[k] = "failure" /\ k < Len(enriched)

\* str has at most one token: it is empty or has no whitespace between tokens
NoInternalWhitespace(s) == Len(split(s)) <= 1

\* C8: a record whose species_name is empty or has no internal whitespace
\* gets no resolver call, the empty placement, and its name in failed
C8_SingleTokenSkipped ==
    \A k \in 1..Len(outcome) :
        NoInternalWhitespace(infile[k].species_name) =>
            /\ CallsOf(k) = {}
            /\ k <= Len(enriched)
            /\ HasEmptyPlacement(authority, enriched[k])
            /\ \E j \in 1..Len(failed) : failed[j] = infile[k].species_name

\* the names of the first k records that did not end as found, in order
RECURSIVE FailedNamesUpTo(_)
FailedNamesUpTo(k) ==
    IF k = 0 THEN <<>>
    ELSE IF outcome[k] # "found"
         THEN Append(FailedNamesUpTo(k - 1), infile[k].species_name)
         ELSE FailedNamesUpTo(k - 1)

\* C9: the k-th enriched record is the k-th input row, and failed lists the
\* names of the records that were not found in processing order, one entry
\* per record
C9_OrderPreserved ==
    /\ Len(enriched) <= Len(infile)
    /\ \A k \in 1..Len(enriched) :
        /\ enriched[k].accession = infile[k].accession
        /\ enriched[k].species_name = infile[k].species_name
    /\ failed = FailedNamesUpTo(Len(enriched))

\* two records with the same name both failed and the function returned
C9_Witness ==
    /\ Len(failed) >= 2
    /\ failed[1] = failed[2]
    /\ pc = "done"

----------------------------------------------------------------------------
(* One record enriched by several authorities: each enrich function is    *)
(* called with the file the previous one saved as its input_file           *)

Range(seq) == {seq[k] : k \in 1..Len(seq)}

ChainInit ==
    /\ LoopIdle /\ HQIdle /\ WalkIdle /\ StatIdle /\ SearchIdle /\ NormIdle /\ AnalyzeIdle /\ RequestIdle
    /\ crec \in {InputRow(1, name) : name \in SpeciesNames}
    /\ capplied = <<>>
    /\ csnaps = <<>>

\* the loop of authority a processes the record and saves it
ChainEnrich ==
    /\ \E a \in Authorities \ Range(capplied) :
         \E resp \in Responses(a) :
           LET r == loop_body(a, 1, crec, resp)
               saved == write_rows(<<r.rec>>).rows[1]
           IN  /\ r.kind \notin {"IndexError", "raised"}
               /\ crec' = saved
               /\ capplied' = Append(capplied, a)
               /\ csnaps' = Append(csnaps, saved)
    /\ UNCHANGED <<loopvars, hqvars, walkvars, statvars, searchvars, normvars, analyzevars, requestvars>>

ChainNext == ChainEnrich

SpecChain == ChainInit /\ [][ChainNext]_vars

\* C10 as stated: every field an authority wrote still holds the value that
\* authority gave it after later authorities enriched the record
C10_FirstAuthorityFieldsKept ==
    \A j \in 1..Len(capplied) :
        \A f \in DOMAIN EmptyPlacement(capplied[j]) : crec[f] = csnaps[j][f]

----------------------------------------------------------------------------
(* 04_generate_statistics.py: is_high_quality                              *)

\* a value of a csv.DictReader row: a str, or None where the row was short
Str(s) == [none |-> FALSE, text |-> s]
NoneValue == [none |-> TRUE, text |-> <<>>]

S_chromosome == <<"c", "h", "r", "o", "m", "o", "s", "o", "m", "e">>
S_complete_genome == <<"c", "o", "m", "p", "l", "e", "t", "e", " ", "g", "e", "n", "o", "m", "e">>

DigitValue ==
    ("0" :> 0) @@ ("1" :> 1) @@ ("2" :> 2) @@ ("3" :> 3) @@ ("4" :> 4) @@
    ("5" :> 5) @@ ("6" :> 6) @@ ("7" :> 7) @@ ("8" :> 8) @@ ("9" :> 9)

Digits == DOMAIN DigitValue

\* int(str): surrounding whitespace is dropped, one sign is allowed, then
\* digits, single underscores allowed between digits; anything else is a
\* ValueError
int_sign(s) == IF s # <<>> /\ Head(s) \in {"+", "-"} THEN Head(s) ELSE "+"

int_body(s) == IF s # <<>> /\ Head(s) \in {"+", "-"} THEN Tail(s) ELSE s

int_body_ok(b) ==
    /\ b # <<>>
    /\ \A k \in 1..Len(b) : b[k] \in Digits \cup {"_"}
    /\ b[1] \in Digits /\ b[Len(b)] \in Digits
    /\ \A k \in 1..(Len(b) - 1) : ~(b[k] = "_" /\ b[k + 1] = "_")

int_parses(s) == int_body_ok(int_body(strip(s)))

RECURSIVE digits_value(_, _)
digits_value(b, acc) ==
    IF b = <<>> THEN acc
    ELSE IF Head(b) = "_" THEN digits_value(Tail(b), acc)
    ELSE digits_value(Tail(b), 10 * acc + DigitValue[Head(b)])

int_of(s) ==
    LET t == strip(s)
        v == digits_value(int_body(t), 0)
    IN  IF int_sign(t) = "-" THEN 0 - v ELSE v

\* the 10 Mb threshold of the scaffold N50 test
N50Threshold == 10000000

\* assembly.get(key, default)
assembly_get(assembly, key, default) == IF key \in DOMAIN assembly THEN assembly[key] ELSE default

\* "True", "False", or the exception that leaves the function
is_high_quality(assembly) ==
    LET level == assembly_get(assembly, "assembly_level", Str(<<>>)) IN
    IF level.none THEN "AttributeError"
    ELSE LET assembly_level == lower(level.text) IN
         IF contains(S_chromosome, assembly_level) \/ assembly_level = S_complete_genome
         THEN "True"
         ELSE LET scaffold_n50 == assembly_get(assembly, "scaffold_n50", NoneValue) IN
              IF /\ ~scaffold_n50.none
                 /\ scaffold_n50.text # <<>>
                 /\ int_parses(scaffold_n50.text)
                 /\ int_of(scaffold_n50.text) > N50Threshold
              THEN "True"
              ELSE "False"

AssemblyLevels ==
    { <<>>,
      <<"C", "h", "r", "o", "m", "o", "s", "o", "m", "e">>,
      <<"c", "h", "r", "o", "m", "o", "s", "o", "m", "e">>,
      <<"C", "H", "R", "O", "M", "O", "S", "O", "M", "E">>,
      <<"C", "h", "r", "o", "m", "o", "s", "o", "m", "e", "-", "l", "e", "v", "e", "l">>,
      <<"C", "o", "m", "p", "l", "e", "t", "e", " ", "G", "e", "n", "o", "m", "e">>,
      <<"c", "o", "m", "p", "l", "e", "t", "e", " ", "g", "e", "n", "o", "m", "e">>,
      <<"C", "o", "m", "p", "l", "e", "t", "e", " ", "G", "e", "n", "o", "m", "e", " ">>,
      <<"S", "c", "a", "f", "f", "o", "l", "d">>,
      <<"C", "o", "n", "t", "i", "g">> }

ScaffoldN50s ==
    { <<>>,
      <<"a", "b", "c">>,
      <<"0">>,
      <<"5", "0", "0", "0", "0", "0">>,
      <<"9", "9", "9", "9", "9", "9", "9">>,
      <<"1", "0", "0", "0", "0", "0", "0", "0">>,
      <<"1", "0", "0", "0", "0", "0", "0", "1">>,
      <<"1", "5", "0", "0", "0", "0", "0", "0">>,
      <<" ", "1", "0", "0", "0", "0", "0", "0", "1", " ">>,
      <<"+", "1", "0", "0", "0", "0", "0", "0", "1">>,
      <<"-", "1", "5", "0", "0", "0", "0", "0", "0">>,
      <<"1", ".", "5", "e", "7">>,
      <<"1", "0", "_", "0", "0", "0", "_", "0", "0", "1">>,
      <<"1", "5", "0", "0", "0", "0", "0", "0", ".", "0">> }

\* the rows is_high_quality is called on: each column absent from the file,
\* None (the row is shorter than the header) or text
HQValues(texts) == {NoneValue} \cup {Str(t) : t \in texts}

HQAssemblies ==
    {[assembly_level |-> l, scaffold_n50 |-> n] : l \in HQValues(AssemblyLevels), n \in HQValues(ScaffoldN50s)}
    \cup {[assembly_level |-> l] : l \in HQValues(AssemblyLevels)}
    \cup {[scaffold_n50 |-> n] : n \in HQValues(ScaffoldN50s)}

HQInit ==
    /\ LoopIdle /\ ChainIdle /\ WalkIdle /\ StatIdle /\ SearchIdle /\ NormIdle /\ AnalyzeIdle /\ RequestIdle
    /\ hq_assembly \in HQAssemblies
    /\ hq_result = ""
    /\ hq_pc = "call"

HQCall ==
    /\ hq_pc = "call"
    /\ hq_result' = is_high_quality(hq_assembly)
    /\ hq_pc' = "done"
    /\ UNCHANGED <<hq_assembly, loopvars, chainvars, walkvars, statvars, searchvars, normvars, analyzevars, requestvars>>

HQNext == HQCall

SpecHQ == HQInit /\ [][HQNext]_vars

\* C2: is_high_quality returns a boolean for every assembly_level and
\* scaffold_n50, missing ones included, and never raises
C2_Total == hq_pc = "done" => hq_result \in {"True", "False"}

\* the text of a column, a missing one being empty
TextOf(assembly, key) ==
    IF key \in DOMAIN assembly /\ ~assembly[key].none THEN assembly[key].text ELSE <<>>

\* the rule: chromosome level, or else an N50 that parses above 10,000,000
HighQualityRule(assembly) ==
    \/ contains(S_chromosome, lower(TextOf(assembly, "assembly_level")))
    \/ lower(TextOf(assembly, "assembly_level")) = S_complete_genome
    \/ /\ int_parses(TextOf(assembly, "scaffold_n50"))
       /\ int_of(TextOf(assembly, "scaffold_n50")) > 10000000

\* C6: is_high_quality returns true exactly when the rule holds and false
\* in every other case
C6_RuleDecides ==
    hq_pc = "done" =>
        /\ HighQualityRule(hq_assembly) => hq_result = "True"
        /\ ~HighQualityRule(hq_assembly) => hq_result = "False"

----------------------------------------------------------------------------
(* get_taxon_lineage, one for-loop iteration at a time, over a graph that  *)
(* is revealed as it is walked                                             *)

WalkEntities == {"Q1", "Q2"}

\* no entity answers for "R_gone": the lookup of that rank gives NoInfo
WalkRanks == {None, "R_genus", "R_subfamily", "R_family", "R_Family", "R_gone"}

\* the English labels of the entities
WalkLabels == ("Q1" :> OtherName) @@ ("Q2" :> T_Anchylorhynchus)

\* the name query_wikidata_taxonomy was called for; the search selected Q1
WalkQueryName == <<"a", " ", "b">>

\* what Wikidata can hold for an entity: with or without its English label,
\* a rank and a parent, the parent being any entity (itself included)
EntityInfos(entity_id) ==
    [label : {<<>>, WalkLabels[entity_id]}, rank_id : WalkRanks, parent_id : WalkEntities \cup {None}]

\* a loop with no depth bound
range_unbounded(i) == TRUE

\* `for i in range(max_depth)`: there is an i-th iteration (counting from 0)
range_has_next(i) == i < max_depth

WalkInit ==
    /\ LoopIdle /\ ChainIdle /\ HQIdle /\ StatIdle /\ SearchIdle /\ NormIdle /\ AnalyzeIdle /\ RequestIdle
    /\ known = <<>>
    /\ walk = walk_start("Q1")
    /\ iterations = 0
    /\ answered = NoInfo
    /\ wtaxonomy = <<>>
    /\ wpc = "loop"

\* one iteration: the entity is looked up (the request may fail, which gives
\* NoInfo), then its rank when it has one
WalkIterate ==
    /\ wpc = "loop"
    /\ ~walk.stopped
    /\ range_has_next(iterations)
    /\ \E entity \in (IF walk.current_id \in DOMAIN known
                      THEN {known[walk.current_id]} ELSE EntityInfos(walk.current_id)) :
       \E info \in {entity, NoInfo} :
          /\ known' = (walk.current_id :> entity) @@ known
          /\ answered' = info
          /\ walk' = walk_iteration(walk, info, get_entity_info(RankEntities, info.rank_id))
    /\ iterations' = iterations + 1
    /\ UNCHANGED <<wtaxonomy, wpc, loopvars, chainvars, hqvars, statvars, searchvars, normvars, analyzevars, requestvars>>

\* the loop ended by break or by exhaustion: `return lineage`, from which
\* query_wikidata_taxonomy builds what it returns
WalkReturn ==
    /\ wpc = "loop"
    /\ walk.stopped \/ ~range_has_next(iterations)
    /\ wtaxonomy' = taxonomy_of_lineage(walk.lineage, "Q1", WalkQueryName)
    /\ wpc' = "done"
    /\ UNCHANGED <<known, walk, iterations, answered, loopvars, chainvars, hqvars, statvars, searchvars, normvars, analyzevars, requestvars>>

WalkNext == WalkIterate \/ WalkReturn

\* the interpreter runs the loop on: every request has a timeout
SpecWalk == WalkInit /\ [][WalkNext]_vars /\ WF_vars(WalkNext)

\* C3: whatever the graph, the walk makes at most max_depth iterations,
\* its lineage never has more than max_depth nodes, and it returns
C3_BoundedWalk ==
    /\ [](iterations <= max_depth /\ Len(walk.lineage) <= max_depth)
    /\ <>(wpc = "done")

\* a walk round a cycle of parent pointers was cut off by the depth bound
C3_Witness ==
    /\ wpc = "done"
    /\ iterations = max_depth
    /\ Len(walk.lineage) = max_depth
    /\ ~walk.stopped
    /\ \E j, k \in 1..Len(walk.lineage) : j < k /\ walk.lineage[j].id = walk.lineage[k].id

----------------------------------------------------------------------------
(* 04_generate_statistics.py: generate_summary_paragraph and the part of   *)
(* main that follows the two analyses                                      *)

MaxCount == 1

DIVERSITY_ESTIMATES ==
    [Arecaceae |-> [total_species |-> 2600, total_genera |-> 181, total_subfamilies |-> 5,
                    total_tribes_cocoseae |-> 15, total_subtribes_cocoseae |-> 4],
     Curculionidae |-> [total_species |-> 51000, total_genera |-> 4600, total_subfamilies |-> 8]]

\* the baselines generate_summary_paragraph divides by
UsedBaselines ==
    [Arecaceae |-> {"total_species", "total_genera", "total_subfamilies", "total_subtribes_cocoseae"},
     Curculionidae |-> {"total_species", "total_genera", "total_subfamilies"}]

\* the table as shipped, or updated with zero for some of the baselines
EstimatesOf(group) ==
    {[key \in DOMAIN DIVERSITY_ESTIMATES[group] |->
         IF key \in zeroed THEN 0 ELSE DIVERSITY_ESTIMATES[group][key]] :
     zeroed \in SUBSET UsedBaselines[group]}

EstimateTables == [Arecaceae : EstimatesOf("Arecaceae"), Curculionidae : EstimatesOf("Curculionidae")]

\* what analyze_arecaceae can return, as far as the paragraph's arithmetic
\* reads it: counts of distinct values among the high-quality rows
ArecStats ==
    {st \in [total_assemblies : 0..MaxCount, hq_assemblies : 0..MaxCount, hq_species : 0..MaxCount,
             hq_genera : 0..MaxCount, subfamilies : 0..MaxCount, cocoseae_subtribes : 0..MaxCount] :
        /\ st.hq_assemblies <= st.total_assemblies
        /\ st.hq_species <= st.hq_assemblies
        /\ st.hq_genera <= st.hq_species
        /\ st.subfamilies <= st.hq_assemblies
        /\ st.cocoseae_subtribes <= st.subfamilies}

CurcStats ==
    {st \in [total_assemblies : 0..MaxCount, hq_assemblies : 0..MaxCount, hq_species : 0..MaxCount,
             hq_genera : 0..MaxCount, subfamilies : 0..MaxCount] :
        /\ st.hq_assemblies <= st.total_assemblies
        /\ st.hq_species <= st.hq_assemblies
        /\ st.hq_genera <= st.hq_species
        /\ st.subfamilies <= st.hq_assemblies}

\* a division that gives 0 for a zero divisor
truediv_zero_is_zero(n, d) ==
    IF d = 0 THEN [raised |-> FALSE, num |-> 0, den |-> 1] ELSE [raised |-> FALSE, num |-> n, den |-> d]

\* n / d: the quotient as a fraction, or ZeroDivisionError
truediv(n, d) ==
    IF d = 0 THEN [raised |-> TRUE, num |-> 0, den |-> 1] ELSE [raised |-> FALSE, num |-> n, den |-> d]

\* (n / d) * 100
pct(n, d) == LET q == truediv(n, d) IN [q EXCEPT !.num = 100 * @]

\* percentages whose high-quality shares are 0 for a group without assemblies
summary_percentages_guarded(div, arec, curc) ==
    [arec_species_pct |-> pct(arec.hq_species, div.Arecaceae.total_species),
     arec_genera_pct |-> pct(arec.hq_genera, div.Arecaceae.total_genera),
     arec_subfamily_pct |-> pct(arec.subfamilies, div.Arecaceae.total_subfamilies),
     arec_cocoseae_subtribe_pct |-> pct(arec.cocoseae_subtribes, div.Arecaceae.total_subtribes_cocoseae),
     curc_species_pct |-> pct(curc.hq_species, div.Curculionidae.total_species),
     curc_genera_pct |-> pct(curc.hq_genera, div.Curculionidae.total_genera),
     curc_subfamily_pct |-> pct(curc.subfamilies, div.Curculionidae.total_subfamilies),
     arec_hq_pct |-> IF arec.total_assemblies = 0 THEN pct(0, 1)
                     ELSE pct(arec.hq_assemblies, arec.total_assemblies),
     curc_hq_pct |-> IF curc.total_assemblies = 0 THEN pct(0, 1)
                     ELSE pct(curc.hq_assemblies, curc.total_assemblies)]

\* the percentages of the paragraph, in the order they are evaluated
summary_percentages(div, arec, curc) ==
    [arec_species_pct |-> pct(arec.hq_species, div.Arecaceae.total_species),
     arec_genera_pct |-> pct(arec.hq_genera, div.Arecaceae.total_genera),
     arec_subfamily_pct |-> pct(arec.subfamilies, div.Arecaceae.total_subfamilies),
     arec_cocoseae_subtribe_pct |-> pct(arec.cocoseae_subtribes, div.Arecaceae.total_subtribes_cocoseae),
     curc_species_pct |-> pct(curc.hq_species, div.Curculionidae.total_species),
     curc_genera_pct |-> pct(curc.hq_genera, div.Curculionidae.total_genera),
     curc_subfamily_pct |-> pct(curc.subfamilies, div.Curculionidae.total_subfamilies),
     arec_hq_pct |-> pct(arec.hq_assemblies, arec.total_assemblies),
     curc_hq_pct |-> pct(curc.hq_assemblies, curc.total_assemblies)]

\* the paragraph (its percentages), or the exception of the first division
\* that failed
generate_summary_paragraph(div, arec, curc) ==
    LET p == summary_percentages(div, arec, curc) IN
    IF \E k \in DOMAIN p : p[k].raised
    THEN [raised |-> "ZeroDivisionError", paragraph |-> [k \in {} |-> 0]]
    ELSE [raised |-> "", paragraph |-> p]

StatInit ==
    /\ LoopIdle /\ ChainIdle /\ HQIdle /\ WalkIdle /\ SearchIdle /\ NormIdle /\ AnalyzeIdle /\ RequestIdle
    /\ estimates \in EstimateTables
    /\ arec_stats \in ArecStats
    /\ curc_stats \in CurcStats
    /\ summary = <<>>
    /\ spc = "call"

\* main from the call of generate_summary_paragraph on: an exception leaves
\* main before anything is saved
Summarize ==
    /\ spc = "call"
    /\ LET r == generate_summary_paragraph(estimates, arec_stats, curc_stats) IN
       summary' = [raised |-> r.raised, paragraph |-> r.paragraph,
                   txt_saved |-> r.raised = "", json_saved |-> r.raised = ""]
    /\ spc' = IF summary'.raised = "" THEN "done" ELSE "crashed"
    /\ UNCHANGED <<estimates, arec_stats, curc_stats, loopvars, chainvars, hqvars, walkvars, searchvars, normvars, analyzevars, requestvars>>

StatNext == Summarize

SpecStats == StatInit /\ [][StatNext]_vars

\* some baseline the paragraph divides by is zero
ZeroBaseline ==
    \E group \in DOMAIN UsedBaselines : \E key \in UsedBaselines[group] : estimates[group][key] = 0

RankNameOf(info) ==
    IF info.rank_id = None THEN <<>> ELSE get_entity_info(RankEntities, info.rank_id).label

\* what the ordered stop conditions allow as the outcome of an iteration that
\* started in w and got the answer info: w2 is the walk after it
FollowsStopOrder(w, info, w2) ==
    IF info.label = <<>>
    THEN w2.stopped /\ w2.lineage = w.lineage
    ELSE /\ w2.lineage = Append(w.lineage,
                [id |-> w.current_id, name |-> info.label, rank |-> RankNameOf(info)])
         /\ IF RankNameOf(info) = S_family THEN w2.stopped
            ELSE IF info.parent_id = None THEN w2.stopped
            ELSE ~w2.stopped /\ w2.current_id = info.parent_id

\* C11: every iteration of the walk follows the stop conditions in order
\* (label missing: stop, node not recorded, lineage kept; else record; stop
\* at rank family; else stop without parent; else move to the parent), no
\* iteration starts once the walk stopped or max_depth iterations were made
C11_StopOrder ==
    [][iterations' # iterations =>
          /\ ~walk.stopped
          /\ iterations < max_depth
          /\ FollowsStopOrder(walk, answered', walk')]_vars

\* a family node with a parent was recorded and ended the walk, after a
\* node without family rank had moved the walk to its parent
C11_Witness ==
    /\ wpc = "done"
    /\ walk.stopped
    /\ Len(walk.lineage) >= 2
    /\ walk.lineage[Len(walk.lineage)].rank = S_family
    /\ known[walk.lineage[Len(walk.lineage)].id].parent_id # None

\* C12: a node whose lower-cased rank is family is the last node of the
\* lineage the walk returns (no ancestor of a family node is recorded)
C12_FamilyIsCeiling ==
    wpc = "done" =>
        \A k \in 1..Len(walk.lineage) :
            lower(walk.lineage[k].rank) = S_family => k = Len(walk.lineage)

\* the positions of the lineage whose lower-cased rank is the given one
NodesOfRank(lineage, rank) == {k \in 1..Len(lineage) : lower(lineage[k].rank) = rank}

\* the recognized ranks of the Wikidata placement, by field
WikidataRankOf == [family |-> S_family, subfamily |-> S_subfamily, genus |-> S_genus]

\* C13: each placement field holds the name of the first node of its rank
\* in leaf-to-root order
C13_FirstNodeOfRankWins ==
    (wpc = "done" /\ wtaxonomy.tag = "dict") =>
        \A f \in DOMAIN WikidataRankOf :
            LET nodes == NodesOfRank(walk.lineage, WikidataRankOf[f]) IN
            nodes # {} =>
                wtaxonomy.val[f] = walk.lineage[CHOOSE k \in nodes : \A j \in nodes : k <= j].name

\* C14: the placement the traversal produces has the leaf node's label as
\* accepted_name when the lineage is non-empty and the query name when the
\* lineage is empty
C14_AcceptedNameOfTraversal ==
    wpc = "done" =>
        /\ wtaxonomy.tag = "dict"
        /\ wtaxonomy.val.accepted_name =
               (IF walk.lineage # <<>> THEN walk.lineage[1].name ELSE WalkQueryName)

----------------------------------------------------------------------------
(* search_wikidata_taxon on the candidate lists the search can return      *)

MaxCandidates == 2

\* descriptions of candidates: none, a painting, and taxa in several casings
CandidateDescriptions ==
    {<<>>, D_painting, D_species_of_beetle, D_Species_of_insect, <<"W", "E", "E", "V", "I", "L", "S">>}

Candidates == [id : {"Q1", "Q2", "Q7"}, description : CandidateDescriptions]

CandidateLists == UNION {[1..n -> Candidates] : n \in 0..MaxCandidates}

SearchInit ==
    /\ LoopIdle /\ ChainIdle /\ HQIdle /\ WalkIdle /\ StatIdle /\ NormIdle /\ AnalyzeIdle /\ RequestIdle
    /\ search_data \in {[raised |-> TRUE, results |-> <<>>]}
                       \cup {[raised |-> FALSE, results |-> r] : r \in CandidateLists}
    /\ selected_id = ""
    /\ search_pc = "call"

SearchCall ==
    /\ search_pc = "call"
    /\ selected_id' = search_wikidata_taxon(search_data)
    /\ search_pc' = "done"
    /\ UNCHANGED <<search_data, loopvars, chainvars, hqvars, walkvars, statvars, normvars, analyzevars, requestvars>>

SearchNext == SearchCall

SpecSearch == SearchInit /\ [][SearchNext]_vars

\* the lower-cased description holds one of the four keywords
MentionsTaxon(candidate) ==
    \E word \in {S_species, S_insect, S_beetle, S_weevil} :
        contains(word, lower(candidate.description))

\* C15: the search selects the first candidate whose lower-cased description
\* holds a keyword, the first candidate when none does, and no entity when
\* there is no candidate
C15_SelectionPolicy ==
    (search_pc = "done" /\ ~search_data.raised) =>
        LET results == search_data.results
            hits == {k \in 1..Len(results) : MentionsTaxon(results[k])}
        IN  IF hits # {}
            THEN selected_id = results[CHOOSE k \in hits : \A j \in hits : k <= j].id
            ELSE IF results # <<>> THEN selected_id = results[1].id
            ELSE selected_id = None

\* the second candidate was selected because only its description, in
\* capitals, holds a keyword
C15_Witness ==
    /\ search_pc = "done"
    /\ Len(search_data.results) = 2
    /\ ~MentionsTaxon(search_data.results[1])
    /\ search_data.results[2].description = <<"W", "E", "E", "V", "I", "L", "S">>
    /\ search_data.results[1].id # search_data.results[2].id
    /\ selected_id = search_data.results[2].id

----------------------------------------------------------------------------
(* The classification fold of query_col_taxonomy on the classification     *)
(* sequences the detail request can return                                 *)

MaxClassification == 2

\* rank labels: in and out of the vocabulary, in several casings, and none
ClassificationRanks ==
    {S_family, S_Family, S_subfamily, S_tribe, S_genus, S_GENUS, S_kingdom, <<>>}

ClassificationNames == {T_Curculionidae, T_Celetes, <<>>}

Classifications ==
    UNION {[1..n -> [rank : ClassificationRanks, name : ClassificationNames]] :
           n \in 0..MaxClassification}

NormInit ==
    /\ LoopIdle /\ ChainIdle /\ HQIdle /\ WalkIdle /\ StatIdle /\ SearchIdle /\ AnalyzeIdle /\ RequestIdle
    /\ col_classification \in Classifications
    /\ col_placement = <<>>
    /\ norm_pc = "call"

NormCall ==
    /\ norm_pc = "call"
    /\ col_placement' = col_rank_fields(col_classification)
    /\ norm_pc' = "done"
    /\ UNCHANGED <<col_classification, loopvars, chainvars, hqvars, walkvars, statvars, searchvars, analyzevars, requestvars>>

NormNext == NormCall

SpecNorm == NormInit /\ [][NormNext]_vars

\* the rank each placement field of Catalogue of Life stands for
ColRankOf ==
    [family_col |-> S_family, subfamily_col |-> S_subfamily, tribe_col |-> S_tribe, genus_col |-> S_genus]

\* the vocabulary of recognized ranks
Vocabulary == {S_family, S_subfamily, S_tribe, S_subtribe, S_genus}

InVocabulary(taxon) == lower(taxon.rank) \in Vocabulary

\* the named entries of a rank, compared without regard to case
NamedOccurrences(cls, rank) == {k \in 1..Len(cls) : lower(cls[k].rank) = rank /\ cls[k].name # <<>>}

----------------------------------------------------------------------------
(* 04_generate_statistics.py: analyze_arecaceae and analyze_curculionidae  *)

MaxRows == 2

S_Chromosome == <<"C", "h", "r", "o", "m", "o", "s", "o", "m", "e">>
S_Scaffold == <<"S", "c", "a", "f", "f", "o", "l", "d">>
T_Ab == <<"A", "b">>
T_ab == <<"a", "b">>
T_Cd == <<"C", "d">>

\* a row of the enriched file; subfamily_col carries the same value as
\* subfamily (the one is read for weevils, the other for palms)
AnalyzeRow(name, level, subfamily, tribe, subtribe) ==
    [species_name |-> name, assembly_level |-> level, scaffold_n50 |-> Str(<<"5", "0", "0", "0", "0", "0">>),
     subfamily |-> subfamily, subfamily_col |-> subfamily, tribe |-> tribe, subtribe |-> subtribe]

\* the rows considered: one species on two high-quality rows with
\* subfamilies differing in case, a species with rank values on a row that
\* is not high quality, a second genus, names that are empty, a single
\* token, tab-separated or blank, and a row shorter than the header
AnalyzeRows ==
    { AnalyzeRow(<<"a", " ", "b">>, Str(S_Chromosome), T_Ab, T_Cocoseae, T_Ab),
      AnalyzeRow(<<"a", " ", "b">>, Str(S_Chromosome), T_ab, T_Cocoseae, <<>>),
      AnalyzeRow(<<"a", " ", "b">>, Str(S_Scaffold), <<>>, <<>>, <<>>),
      AnalyzeRow(<<"a", " ", "c">>, Str(S_Scaffold), T_Cd, T_Cd, T_Cd),
      AnalyzeRow(<<"c", " ", "b">>, Str(S_Chromosome), <<>>, T_Ab, T_Ab),
      AnalyzeRow(<<>>, Str(S_Chromosome), T_Ab, T_Cocoseae, T_Cd),
      AnalyzeRow(<<"a">>, Str(S_Chromosome), T_Ab, T_Cocoseae, T_Ab),
      AnalyzeRow(<<"a", "\t", "b">>, Str(S_Chromosome), <<>>, <<>>, <<>>),
      AnalyzeRow(<<" ">>, Str(S_Scaffold), <<>>, <<>>, <<>>),
      AnalyzeRow(<<"a", " ", "b">>, NoneValue, <<>>, <<>>, <<>>) }

AnalyzeFiles == UNION {[1..n -> AnalyzeRows] : n \in 0..MaxRows}

row_is_high_quality(a) ==
    is_high_quality([assembly_level |-> a.assembly_level, scaffold_n50 |-> a.scaffold_n50]) = "True"

\* a selection that keeps every row
all_assemblies(assemblies_list) == assemblies_list

\* [a for a in assemblies if is_high_quality(a)]
hq_assemblies_of(assemblies_list) == SelectSeq(assemblies_list, row_is_high_quality)

\* a set of names that lets the empty name in
species_set_with_empty(assemblies_list) ==
    {assemblies_list[k].species_name : k \in 1..Len(assemblies_list)}

\* set(a["species_name"] for a in ... if a["species_name"])
species_set(assemblies_list) ==
    {assemblies_list[k].species_name :
        k \in {j \in 1..Len(assemblies_list) : assemblies_list[j].species_name # <<>>}}

\* the genera added by the loop `if a["species_name"] and " " in a["species_name"]`
genus_set(assemblies_list) ==
    {split(assemblies_list[k].species_name)[1] :
        k \in {j \in 1..Len(assemblies_list) :
                  /\ assemblies_list[j].species_name # <<>>
                  /\ contains(<<" ">>, assemblies_list[j].species_name)}}

\* set(a[field] for a in ... if a.get(field))
rank_set(assemblies_list, field) ==
    {assemblies_list[k][field] :
        k \in {j \in 1..Len(assemblies_list) : assemblies_list[j][field] # <<>>}}

is_cocoseae(a) == a.tribe = T_Cocoseae

\* the exception that leaves the function, "" when it returns
analyze_raises(assemblies_list) ==
    IF \E k \in 1..Len(assemblies_list) : assemblies_list[k].assembly_level.none
    THEN "AttributeError"
    ELSE IF \E k \in 1..Len(assemblies_list) :
               /\ contains(<<" ">>, assemblies_list[k].species_name)
               /\ split(assemblies_list[k].species_name) = <<>>
    THEN "IndexError"
    ELSE ""

\* the sets and lists the function holds when it returns
analyze_arecaceae(assemblies_list) ==
    LET hq_assemblies == hq_assemblies_of(assemblies_list)
        cocoseae_assemblies == SelectSeq(hq_assemblies, is_cocoseae)
    IN  [total_assemblies |-> Len(assemblies_list),
         hq_assemblies |-> Len(hq_assemblies),
         all_species |-> species_set(assemblies_list),
         hq_species |-> species_set(hq_assemblies),
         all_genera |-> genus_set(assemblies_list),
         hq_genera |-> genus_set(hq_assemblies),
         subfamilies |-> rank_set(hq_assemblies, "subfamily"),
         tribes |-> rank_set(hq_assemblies, "tribe"),
         subtribes |-> rank_set(hq_assemblies, "subtribe"),
         cocoseae_subtribes |-> rank_set(cocoseae_assemblies, "subtribe"),
         cocoseae_genera |-> genus_set(cocoseae_assemblies)]

analyze_curculionidae(assemblies_list) ==
    LET hq_assemblies == hq_assemblies_of(assemblies_list)
    IN  [total_assemblies |-> Len(assemblies_list),
         hq_assemblies |-> Len(hq_assemblies),
         all_species |-> species_set(assemblies_list),
         hq_species |-> species_set(hq_assemblies),
         all_genera |-> genus_set(assemblies_list),
         hq_genera |-> genus_set(hq_assemblies),
         subfamilies |-> rank_set(hq_assemblies, "subfamily_col")]

\* a dict whose hq_species is the number of high-quality rows
returned_counts_hq_rows(sets) ==
    [key \in DOMAIN sets |->
        IF key \in {"total_assemblies", "hq_assemblies"} THEN sets[key]
        ELSE IF key = "hq_species" THEN sets.hq_assemblies
        ELSE Cardinality(sets[key])]

\* the dict returned: the size of each set
returned_counts(sets) ==
    [key \in DOMAIN sets |->
        IF key \in {"total_assemblies", "hq_assemblies"} THEN sets[key] ELSE Cardinality(sets[key])]

AnalyzeInit ==
    /\ LoopIdle /\ ChainIdle /\ HQIdle /\ WalkIdle /\ StatIdle /\ SearchIdle /\ NormIdle /\ RequestIdle
    /\ an_group \in {"Arecaceae", "Curculionidae"}
    /\ an_rows \in AnalyzeFiles
    /\ an_stats = <<>>
    /\ an_pc = "call"

Analyze ==
    /\ an_pc = "call"
    /\ IF analyze_raises(an_rows) # ""
       THEN /\ an_stats' = [raised |-> analyze_raises(an_rows)]
            /\ an_pc' = "crashed"
       ELSE /\ LET sets == IF an_group = "Arecaceae" THEN analyze_arecaceae(an_rows)
                           ELSE analyze_curculionidae(an_rows)
               IN  an_stats' = [raised |-> "", sets |-> sets, counts |-> returned_counts(sets)]
            /\ an_pc' = "done"
    /\ UNCHANGED <<an_group, an_rows, loopvars, chainvars, hqvars, walkvars, statvars, searchvars, normvars, requestvars>>

AnalyzeNext == Analyze

SpecAnalyze == AnalyzeInit /\ [][AnalyzeNext]_vars

\* the rows of the file, and those that are high quality
RowsOf(file) == {file[k] : k \in 1..Len(file)}

HighQualityRowsOf(file) == {a \in RowsOf(file) : row_is_high_quality(a)}

\* the distinct non-empty species names of a set of rows
DistinctNames(rs) == {a.species_name : a \in {b \in rs : b.species_name # <<>>}}

\* C17: the species counts are the numbers of distinct non-empty
\* species_name strings (of all rows, of the high-quality rows), and every
\* row counts in the total
C17_UniqueSpecies ==
    an_pc = "done" =>
        /\ an_stats.counts.total_assemblies = Len(an_rows)
        /\ an_stats.counts.all_species = Cardinality(DistinctNames(RowsOf(an_rows)))
        /\ an_stats.counts.hq_species = Cardinality(DistinctNames(HighQualityRowsOf(an_rows)))

\* two rows with the same name gave one species and two assemblies
C17_Witness ==
    /\ an_pc = "done"
    /\ Len(an_rows) = 2
    /\ an_rows[1] # an_rows[2]
    /\ an_rows[1].species_name = an_rows[2].species_name
    /\ an_stats.counts.all_species = 1
    /\ an_stats.counts.total_assemblies = 2

\* the text before the first whitespace of a name without leading whitespace
RECURSIVE UpToWhitespace(_)
UpToWhitespace(name) ==
    IF name = <<>> \/ Head(name) \in Whitespace THEN <<>>
    ELSE <<Head(name)>> \o UpToWhitespace(Tail(name))

FirstToken(name) == UpToWhitespace(lstrip(name))

\* the first tokens of the names that contain a space
GeneraOf(rs) == {FirstToken(a.species_name) : a \in {b \in rs : contains(<<" ">>, b.species_name)}}

\* C18: the analysis of a file gives genus sets, each holding exactly the
\* first tokens of the names with a space among its rows (all rows,
\* high-quality rows, high-quality Cocoseae rows); a name without a space
\* contributes nothing, and no name with a space makes the extraction fail
C18_GenusSets ==
    /\ an_pc = "crashed" => an_stats.raised # "IndexError"
    /\ an_pc = "done" =>
        /\ an_stats.sets.all_genera = GeneraOf(RowsOf(an_rows))
        /\ an_stats.sets.hq_genera = GeneraOf(HighQualityRowsOf(an_rows))
        /\ an_group = "Arecaceae" =>
              an_stats.sets.cocoseae_genera =
                  GeneraOf({a \in HighQualityRowsOf(an_rows) : a.tribe = T_Cocoseae})

\* the non-empty values of a field among rows
ValuesOf(rs, field) == {a[field] : a \in {b \in rs : b[field] # <<>>}}

\* C19: the subfamily, tribe and subtribe sets hold exactly the non-empty
\* values of the high-quality rows, compared as they are written
C19_RankSetsOverHighQuality ==
    an_pc = "done" =>
        IF an_group = "Arecaceae"
        THEN /\ an_stats.sets.subfamilies = ValuesOf(HighQualityRowsOf(an_rows), "subfamily")
             /\ an_stats.sets.tribes = ValuesOf(HighQualityRowsOf(an_rows), "tribe")
             /\ an_stats.sets.subtribes = ValuesOf(HighQualityRowsOf(an_rows), "subtribe")
             /\ an_stats.counts.subfamilies = Cardinality(an_stats.sets.subfamilies)
        ELSE /\ an_stats.sets.subfamilies = ValuesOf(HighQualityRowsOf(an_rows), "subfamily_col")
             /\ an_stats.counts.subfamilies = Cardinality(an_stats.sets.subfamilies)

\* a subfamily that occurs only on a row that is not high quality is not
\* counted, next to a high-quality row whose subfamily is
C19_Witness ==
    /\ an_pc = "done"
    /\ \E a \in RowsOf(an_rows) : ~row_is_high_quality(a) /\ a.subfamily = T_Cd
    /\ an_stats.sets.subfamilies = {T_ab}
    /\ an_stats.counts.subfamilies = 1

RECURSIVE TokensOf(_)
TokensOf(name) ==
    LET t == lstrip(name)
        first == UpToWhitespace(t)
    IN  IF t = <<>> THEN <<>>
        ELSE <<first>> \o TokensOf(SubSeq(t, Len(first) + 1, Len(t)))

\* the first two tokens of a name (fewer if the name has fewer)
FirstTwoTokens(name) ==
    LET tokens == TokensOf(name) IN SubSeq(tokens, 1, IF Len(tokens) < 2 THEN Len(tokens) ELSE 2)

\* C21: every resolver call is made with the first token of the record's
\* species_name as genus and the second as epithet (empty when there is no
\* second token), so names that agree on their first two tokens are asked
\* about with the same arguments
C21_FirstTwoTokensQueried ==
    /\ \A j \in 1..Len(calls) :
          LET tokens == TokensOf(infile[calls[j].rec].species_name) IN
          /\ tokens # <<>>
          /\ calls[j].genus = tokens[1]
          /\ calls[j].species = IF Len(tokens) >= 2 THEN tokens[2] ELSE <<>>
    /\ \A i, j \in 1..Len(calls) :
          FirstTwoTokens(infile[calls[i].rec].species_name)
              = FirstTwoTokens(infile[calls[j].rec].species_name)
          => /\ calls[i].genus = calls[j].genus
             /\ calls[i].species = calls[j].species

\* a binomial and a trinomial that extends it were resolved with the same call
C21_Witness ==
    /\ Len(calls) = 2
    /\ calls[1].rec # calls[2].rec
    /\ Len(TokensOf(infile[calls[1].rec].species_name)) = 2
    /\ Len(TokensOf(infile[calls[2].rec].species_name)) = 3
    /\ calls[1].genus = calls[2].genus
    /\ calls[1].species = calls[2].species
    /\ calls[1].species # <<>>

\* C22: in the events of one walk no two lookups are adjacent: a delay
\* separates every lookup from the next one
C22_DelayBetweenLookups ==
    \A k \in 1..(Len(walk.events) - 1) :
        ~(walk.events[k] = "lookup" /\ walk.events[k + 1] = "lookup")

\* the keys an authority's loop writes: those of its placement dict, and for
\* Wikidata the "genus" key of the dict its resolver returns
PlacementFieldsOf(a) ==
    (DOMAIN EmptyPlacement(a)) \cup (IF a = "wikidata" THEN {"genus"} ELSE {})

\* C23: a step of the loop changes a record only if it is the record of
\* this iteration and still as it was read; the change keeps every column
\* of the input row at its value and adds only placement fields of the
\* authority; when the loop has run to its end every record was written
C23_OnlyPlacementWrittenOnce ==
    [][\A k \in 1..Len(assemblies) :
        /\ pc' = "done" => assemblies'[k] # infile[k]
        /\ assemblies'[k] # assemblies[k] =>
              /\ k = idx
              /\ assemblies[k] = infile[k]
              /\ DOMAIN infile[k] \subseteq DOMAIN assemblies'[k]
              /\ \A f \in DOMAIN infile[k] : assemblies'[k][f] = infile[k][f]
              /\ (DOMAIN assemblies'[k]) \ (DOMAIN infile[k]) \subseteq PlacementFieldsOf(authority)
              /\ enriched' = Append(enriched, assemblies'[k])]_vars

\* a run enriched one record as found and one as skipped or failed, and
\* both still carry their accession, organism and species_name
C23_Witness ==
    /\ Len(enriched) = 2
    /\ outcome[1] = "found"
    /\ outcome[2] \in {"skipped", "notfound", "failure"}
    /\ \A k \in 1..2 :
          /\ enriched[k] # infile[k]
          /\ \A f \in DOMAIN infile[k] : enriched[k][f] = infile[k][f]

\* C24: in the statistics returned for either group each high-quality
\* figure is at most its all-records counterpart, each high-quality set
\* being a subset of the wider one; for Arecaceae the Cocoseae subtribes are
\* among the subtribes
C24_HighQualityBounded ==
    an_pc = "done" =>
        /\ an_stats.counts.hq_assemblies <= an_stats.counts.total_assemblies
        /\ an_stats.sets.hq_species \subseteq an_stats.sets.all_species
        /\ an_stats.counts.hq_species <= an_stats.counts.all_species
        /\ an_stats.sets.hq_genera \subseteq an_stats.sets.all_genera
        /\ an_stats.counts.hq_genera <= an_stats.counts.all_genera
        /\ an_group = "Arecaceae" =>
              /\ an_stats.sets.cocoseae_subtribes \subseteq an_stats.sets.subtribes
              /\ an_stats.counts.cocoseae_subtribes <= an_stats.counts.subtribes

\* a palm file where every high-quality figure is strictly below its
\* counterpart and not zero
C24_Witness ==
    /\ an_pc = "done"
    /\ an_group = "Arecaceae"
    /\ an_stats.counts.hq_assemblies = 1 /\ an_stats.counts.total_assemblies = 2
    /\ an_stats.counts.hq_species = 1 /\ an_stats.counts.all_species = 2
    /\ an_stats.counts.hq_genera = 1 /\ an_stats.counts.all_genera = 2
    /\ an_stats.counts.cocoseae_subtribes = 0 /\ an_stats.counts.subtribes = 1

\* the number of entity lookups among the events of the walk
LookupsMade == Cardinality({k \in 1..Len(walk.events) : walk.events[k] = "lookup"})

\* every entity the walk met has a parent and no rank named family, and the
\* last node lookup gave a label (so did those before it, or the walk would
\* have ended there): the parent chain is a cycle the walk never leaves
OnLabelledCycle ==
    /\ answered.label # <<>>
    /\ \A e \in DOMAIN known : known[e].parent_id # None /\ RankNameOf(known[e]) # S_family

\* C25: a walk never makes more than 2 * max_depth lookups, and on a cycle
\* of labelled nodes without a family it returns exactly max_depth nodes,
\* some entity more than once
C25_LookupsAndCycle ==
    /\ LookupsMade <= 2 * max_depth
    /\ (wpc = "done" /\ OnLabelledCycle) =>
          /\ Len(walk.lineage) = max_depth
          /\ \E j, k \in 1..Len(walk.lineage) : j < k /\ walk.lineage[j].id = walk.lineage[k].id

\* a walk round a cycle of two ranked entities returned after 2 * max_depth
\* lookups with the two entities alternating in its lineage
C25_Witness ==
    /\ wpc = "done"
    /\ OnLabelledCycle
    /\ LookupsMade = 2 * max_depth
    /\ Len(walk.lineage) = max_depth
    /\ walk.lineage[1].id # walk.lineage[2].id
    /\ \A k \in 1..(max_depth - 2) : walk.lineage[k].id = walk.lineage[k + 2].id

----------------------------------------------------------------------------
(* query_col_taxonomy, one request at a time *)

\* what the service can answer to the requests of one call: to the EXACT
\* search an exception, a status other than 200, no results or results; to
\* the WHOLE_WORDS search the same, except that its status is not read (a
\* body without results); whether the first result has an id; and to the
\* detail request an exception, a status other than 200 or the usage
ColAnswers ==
    [exact : {"raise", "status", "empty", "hit"},
     fuzzy : {"raise", "errbody", "empty", "hit"},
     has_id : BOOLEAN,
     detail : {"raise", "status", "ok"}]

\* data["result"] of a search that has results: two usages
search_results(type, has_id) ==
    IF type = "EXACT"
    THEN <<[id |-> IF has_id THEN "e1" ELSE None], [id |-> "e2"]>>
    ELSE <<[id |-> IF has_id THEN "f1" ELSE None], [id |-> "f2"]>>

\* a resolver that goes on to the second search after a status other than 200
col_after_exact_retry_status(exact) ==
    IF exact = "raise" THEN "except"
    ELSE IF exact \in {"status", "empty"} THEN "fuzzy"
    ELSE "first"

\* where the call goes after the EXACT search: into an except clause, to
\* `return None`, to the WHOLE_WORDS search, or on to data["result"][0]
col_after_exact(exact) ==
    IF exact = "raise" THEN "except"
    ELSE IF exact = "status" THEN "return"
    ELSE IF exact = "empty" THEN "fuzzy"
    ELSE "first"

\* where the call goes after the WHOLE_WORDS search
col_after_fuzzy(fuzzy) ==
    IF fuzzy = "raise" THEN "except"
    ELSE IF fuzzy \in {"errbody", "empty"} THEN "return"
    ELSE "first"

\* what the call returns for the answers it got
col_returned(answers) ==
    query_col_taxonomy(<<"a">>, <<"b">>,
        [exact |-> answers.exact, fuzzy |-> answers.fuzzy, has_id |-> answers.has_id,
         detail |-> answers.detail, cls |-> "full", sci |-> TRUE])

RequestInit ==
    /\ LoopIdle /\ ChainIdle /\ HQIdle /\ WalkIdle /\ StatIdle /\ SearchIdle /\ NormIdle /\ AnalyzeIdle
    /\ col_answers \in ColAnswers
    /\ col_trace = <<>>
    /\ col_result = <<>>
    /\ col_pc = "exact"

\* requests.get(search_url, params) with type EXACT, and what follows it
ColExactSearch ==
    /\ col_pc = "exact"
    /\ col_trace' = Append(col_trace, [request |-> "search", arg |-> "EXACT"])
    /\ LET next == col_after_exact(col_answers.exact) IN
       IF next \in {"except", "return"}
       THEN col_pc' = "done" /\ col_result' = col_returned(col_answers)
       ELSE col_pc' = next /\ col_result' = col_result
    /\ UNCHANGED <<col_answers, loopvars, chainvars, hqvars, walkvars, statvars, searchvars, normvars, analyzevars>>

\* the second requests.get(search_url, params), with type WHOLE_WORDS
ColFuzzySearch ==
    /\ col_pc = "fuzzy"
    /\ col_trace' = Append(col_trace, [request |-> "search", arg |-> "WHOLE_WORDS"])
    /\ LET next == col_after_fuzzy(col_answers.fuzzy) IN
       IF next \in {"except", "return"}
       THEN col_pc' = "done" /\ col_result' = col_returned(col_answers)
       ELSE col_pc' = next /\ col_result' = col_result
    /\ UNCHANGED <<col_answers, loopvars, chainvars, hqvars, walkvars, statvars, searchvars, normvars, analyzevars>>

\* result = data["result"][0]; the detail request when it has an id; return
ColFirstResult ==
    /\ col_pc = "first"
    /\ LET data == search_results(IF col_answers.exact = "hit" THEN "EXACT" ELSE "WHOLE_WORDS",
                                  col_answers.has_id)
           usage_id == data[1].id
       IN  col_trace' = IF usage_id # None
                        THEN Append(col_trace, [request |-> "detail", arg |-> usage_id])
                        ELSE col_trace
    /\ col_result' = col_returned(col_answers)
    /\ col_pc' = "done"
    /\ UNCHANGED <<col_answers, loopvars, chainvars, hqvars, walkvars, statvars, searchvars, normvars, analyzevars>>

RequestNext == ColExactSearch \/ ColFuzzySearch \/ ColFirstResult

SpecRequests == RequestInit /\ [][RequestNext]_vars

\* the requests of a kind issued so far, and whether a search of a type was
RequestsOf(kind) == {k \in 1..Len(col_trace) : col_trace[k].request = kind}

Searched(type) == \E k \in RequestsOf("search") : col_trace[k].arg = type

\* C26: the WHOLE_WORDS search is issued exactly when the EXACT search
\* answered 200 without results; a status other than 200 to the EXACT search
\* ends the call as not found after that one request; a call makes at most
\* two searches and one detail request, the EXACT search first and the
\* detail request last, and the detail request asks for the first result of
\* the search that had results
C26_FallbackAndDetail ==
    /\ Searched("WHOLE_WORDS") => col_answers.exact = "empty"
    /\ (col_pc = "done" /\ col_answers.exact = "empty") => Searched("WHOLE_WORDS")
    /\ (col_pc = "done" /\ col_answers.exact = "status") =>
          /\ col_trace = <<[request |-> "search", arg |-> "EXACT"]>>
          /\ col_result.tag = "None"
    /\ Cardinality(RequestsOf("search")) <= 2
    /\ Cardinality(RequestsOf("detail")) <= 1
    /\ col_trace # <<>> => col_trace[1] = [request |-> "search", arg |-> "EXACT"]
    /\ \A k \in RequestsOf("detail") :
          /\ k = Len(col_trace)
          /\ \/ col_answers.exact = "hit" /\ col_trace[k].arg = search_results("EXACT", TRUE)[1].id
             \/ /\ col_answers.exact = "empty" /\ col_answers.fuzzy = "hit"
                /\ col_trace[k].arg = search_results("WHOLE_WORDS", TRUE)[1].id

\* a name found only by the second search was resolved with three requests
C26_Witness ==
    /\ col_pc = "done"
    /\ col_trace = <<[request |-> "search", arg |-> "EXACT"],
                     [request |-> "search", arg |-> "WHOLE_WORDS"],
                     [request |-> "detail", arg |-> "f1"]>>
    /\ col_result.tag = "dict"

\* C27: with every baseline positive, the paragraph fails with a division by
\* zero when a group has no assemblies, and is returned when both groups
\* have at least one
C27_EmptyGroupDivides ==
    (spc # "call" /\ ~ZeroBaseline) =>
        IF arec_stats.total_assemblies = 0 \/ curc_stats.total_assemblies = 0
        THEN summary.raised = "ZeroDivisionError" /\ spc = "crashed"
        ELSE /\ summary.raised = "" /\ spc = "done"
             /\ ~summary.paragraph.arec_hq_pct.raised
             /\ ~summary.paragraph.curc_hq_pct.raised

\* with the shipped baselines, an empty palm file next to a weevil file with
\* an assembly made the paragraph fail
C27_Witness ==
    /\ spc = "crashed"
    /\ estimates = DIVERSITY_ESTIMATES
    /\ arec_stats.total_assemblies = 0
    /\ curc_stats.total_assemblies >= 1
    /\ summary.raised = "ZeroDivisionError"

====
